---- MODULE Spec2Model ----
(***************************************************************************)
(* Model of the two batch tools of iOS/AIReadingApp:                       *)
(*   extract_covers.py   - the cover extractor                             *)
(*   generate_catalog.py - the catalog generator                           *)
(* Python strings are TLA+ strings; the string methods the code uses       *)
(* (lower, replace, title, `in`, join, comparison) are computed character  *)
(* by character.                                                           *)
(***************************************************************************)
EXTENDS Integers, Sequences, FiniteSets, TLC

VARIABLES
    \* ---- classification (guess_genre / guess_age_rating) ----
    title, author, tags, genre, age, cl_pc,
    \* ---- the environment both tools read ----
    EBOOKLIB_AVAILABLE, epubs_dir_exists, dir_listing,
    \* ---- cover extractor ----
    output_dir, preexisting, create_placeholders, epub_files, cov_i, cov_pc,
    cov_exit, cov_log, runs,
    \* ---- catalog generator ----
    covers_dir, cat_files, cat_i, cat_pc, cat_exit, cat_read, books, collections,
    \* ---- create_collections as a function of a book list ----
    cc_books, cc_result, cc_pc,
    \* ---- extract_cover_from_epub as a function of one e-book file ----
    ex_ok, ex_book, ex_cover, ex_pc

clVars  == <<title, author, tags, genre, age, cl_pc>>
envVars == <<EBOOKLIB_AVAILABLE, epubs_dir_exists, dir_listing>>
covVars == <<output_dir, preexisting, create_placeholders, epub_files, cov_i, cov_pc, cov_exit, cov_log, runs>>
catVars == <<covers_dir, cat_files, cat_i, cat_pc, cat_exit, cat_read, books, collections>>
ccVars  == <<cc_books, cc_result, cc_pc>>
exVars  == <<ex_ok, ex_book, ex_cover, ex_pc>>
vars    == <<clVars, envVars, covVars, catVars, ccVars, exVars>>

(***************************************************************************)
(* Bounds of the model.                                                    *)
(***************************************************************************)
MaxWords == 2
MaxItems == 2
MaxRuns  == 2
MaxBooks == 4

(***************************************************************************)
(* Python values.                                                          *)
(***************************************************************************)
\* Python's None where a string is expected (no real string has this value).
None == "<None>"

\* Truth value of an Optional[str] / bytes: None and the empty string are falsy.
Truthy(s) == s # None /\ s # ""

(***************************************************************************)
(* Strings.                                                                *)
(***************************************************************************)
\* The characters that occur in the model, in increasing code point order.
AsciiChars == " '-./0123456789ABCDEFGHIJKLMNOPQRSTUVWXYZ_abcdefghijklmnopqrstuvwxyz"
UpperChars == "ABCDEFGHIJKLMNOPQRSTUVWXYZ"
LowerChars == "abcdefghijklmnopqrstuvwxyz"

CharAt(s, i) == SubSeq(s, i, i)
CharSet == {CharAt(AsciiChars, i) : i \in 1..Len(AsciiChars)}

IndexIn(c, s) == IF \E i \in 1..Len(s) : CharAt(s, i) = c
                 THEN CHOOSE i \in 1..Len(s) : CharAt(s, i) = c
                 ELSE 0

\* ord(c), up to an order-preserving renumbering.
Ord == [c \in CharSet |-> IndexIn(c, AsciiChars)]

IsUpper == [c \in CharSet |-> IndexIn(c, UpperChars) > 0]
IsLower == [c \in CharSet |-> IndexIn(c, LowerChars) > 0]
LowerChar == [c \in CharSet |-> IF IndexIn(c, UpperChars) > 0
                                THEN CharAt(LowerChars, IndexIn(c, UpperChars)) ELSE c]
UpperChar == [c \in CharSet |-> IF IndexIn(c, LowerChars) > 0
                                THEN CharAt(UpperChars, IndexIn(c, LowerChars)) ELSE c]

\* str.lower()
RECURSIVE Lower(_)
Lower(s) == IF s = "" THEN ""
            ELSE LowerChar[CharAt(s, 1)] \o Lower(SubSeq(s, 2, Len(s)))

\* `w in s` for strings: w occurs in s as a contiguous substring.
Contains(s, w) == \E i \in 1..(Len(s) - Len(w) + 1) : SubSeq(s, i, i + Len(w) - 1) = w

\* any(word in s for word in words)
AnyIn(words, s) == \E k \in 1..Len(words) : Contains(s, words[k])

\* s.endswith(suffix)
EndsWith(s, suffix) == /\ Len(s) >= Len(suffix)
                       /\ SubSeq(s, Len(s) - Len(suffix) + 1, Len(s)) = suffix

\* str.replace(old, new) for a one-character old.
RECURSIVE Replace(_, _, _)
Replace(s, old, new) ==
    IF s = "" THEN ""
    ELSE (IF CharAt(s, 1) = old THEN new ELSE CharAt(s, 1))
         \o Replace(SubSeq(s, 2, Len(s)), old, new)

\* str.title(): a cased character is upper-cased when the character before it
\* is not cased, and lower-cased when it is.
RECURSIVE TitleFrom(_, _)
TitleFrom(s, previous_is_cased) ==
    IF s = "" THEN ""
    ELSE LET c == CharAt(s, 1)
             cased == IsUpper[c] \/ IsLower[c]
             out == IF ~cased THEN c
                    ELSE IF previous_is_cased THEN LowerChar[c] ELSE UpperChar[c]
         IN out \o TitleFrom(SubSeq(s, 2, Len(s)), cased)

TitleCase(s) == TitleFrom(s, FALSE)

\* " ".join(words)
RECURSIVE Join(_)
Join(words) == IF Len(words) = 0 THEN ""
               ELSE IF Len(words) = 1 THEN words[1]
               ELSE words[1] \o " " \o Join(Tail(words))

\* a < b for Python strings (code point order, a proper prefix is smaller).
RECURSIVE StrLess(_, _)
StrLess(a, b) ==
    IF b = "" THEN FALSE
    ELSE IF a = "" THEN TRUE
    ELSE IF CharAt(a, 1) = CharAt(b, 1)
         THEN StrLess(SubSeq(a, 2, Len(a)), SubSeq(b, 2, Len(b)))
         ELSE Ord[CharAt(a, 1)] < Ord[CharAt(b, 1)]

\* sorted(S) for a finite set of strings.
RECURSIVE SortedStrings(_)
SortedStrings(S) ==
    IF S = {} THEN <<>>
    ELSE LET m == CHOOSE x \in S : \A y \in S \ {x} : StrLess(x, y)
         IN <<m>> \o SortedStrings(S \ {m})

(***************************************************************************)
(* generate_catalog.py: guess_genre and guess_age_rating.                  *)
(***************************************************************************)
MysteryWords  == <<"mystery", "detective", "murder", "crime">>
FantasyWords  == <<"fantasy", "wizard", "magic", "dragon">>
RomanceWords  == <<"romance", "love", "heart">>
HorrorWords   == <<"horror", "terror", "vampire", "zombie">>
SciFiWords    == <<"science", "space", "robot", "future">>

\* guess_genre with the Romance rule tested before the Fantasy rule.
guess_genre_swapped(t, a, tg) ==
    LET title_lower == Lower(t)
        author_lower == IF Truthy(a) THEN Lower(a) ELSE ""
    IN IF AnyIn(MysteryWords, title_lower) THEN "Mystery"
       ELSE IF AnyIn(RomanceWords, title_lower) THEN "Romance"
       ELSE IF AnyIn(FantasyWords, title_lower) THEN "Fantasy"
       ELSE IF AnyIn(HorrorWords, title_lower) THEN "Horror"
       ELSE IF AnyIn(SciFiWords, title_lower) THEN "Science Fiction"
       ELSE IF Contains(Lower(Join(tg)), "children") \/ Contains(title_lower, "kid")
            THEN "Children's Literature"
       ELSE IF Contains(author_lower, "dickens") \/ Contains(author_lower, "austen")
            THEN "Classic Literature"
       ELSE "Fiction"

guess_genre(t, a, tg) ==
    LET title_lower == Lower(t)
        author_lower == IF Truthy(a) THEN Lower(a) ELSE ""
    IN IF AnyIn(MysteryWords, title_lower) THEN "Mystery"
       ELSE IF AnyIn(FantasyWords, title_lower) THEN "Fantasy"
       ELSE IF AnyIn(RomanceWords, title_lower) THEN "Romance"
       ELSE IF AnyIn(HorrorWords, title_lower) THEN "Horror"
       ELSE IF AnyIn(SciFiWords, title_lower) THEN "Science Fiction"
       ELSE IF Contains(Lower(Join(tg)), "children") \/ Contains(title_lower, "kid")
            THEN "Children's Literature"
       ELSE IF Contains(author_lower, "dickens") \/ Contains(author_lower, "austen")
            THEN "Classic Literature"
       ELSE "Fiction"

ChildrenTitleWords   == <<"children", "kid", "little", "pooh", "curious george">>
YoungAdultTitleWords == <<"hardy boys", "nancy drew", "young">>

\* guess_age_rating with the Horror/Gothic rule tested first.
guess_age_rating_horror_first(t, g, tg) ==
    LET title_lower == Lower(t)
        genre_lower == Lower(g)
        tags_lower  == Lower(Join(tg))
    IN IF genre_lower \in {"horror", "gothic"} THEN "Young Adult"
       ELSE IF AnyIn(ChildrenTitleWords, title_lower) THEN "Children"
       ELSE IF Contains(tags_lower, "children") \/ Contains(tags_lower, "picture book")
            THEN "Children"
       ELSE IF AnyIn(YoungAdultTitleWords, title_lower) THEN "Young Adult"
       ELSE IF Contains(tags_lower, "young adult") \/ Contains(tags_lower, "ya")
            THEN "Young Adult"
       ELSE "Adult"

guess_age_rating(t, g, tg) ==
    LET title_lower == Lower(t)
        genre_lower == Lower(g)
        tags_lower  == Lower(Join(tg))
    IN IF AnyIn(ChildrenTitleWords, title_lower) THEN "Children"
       ELSE IF Contains(tags_lower, "children") \/ Contains(tags_lower, "picture book")
            THEN "Children"
       ELSE IF AnyIn(YoungAdultTitleWords, title_lower) THEN "Young Adult"
       ELSE IF Contains(tags_lower, "young adult") \/ Contains(tags_lower, "ya")
            THEN "Young Adult"
       ELSE IF genre_lower \in {"horror", "gothic"} THEN "Young Adult"
       ELSE "Adult"

(***************************************************************************)
(* Inputs of the classification.                                           *)
(***************************************************************************)
\* Title fragments: a keyword of every rule in mixed case, words that only
\* contain a keyword ("Glove", "Kidnapped"), and a phrase with no keyword.
Vocab == {"The Great Adventure", "Dragon", "MURDER", "Glove", "Zombie",
          "Children", "Kidnapped", "Young", "Little"}

Titles == {Join(ws) : ws \in UNION {[1..n -> Vocab] : n \in 1..MaxWords}}

Authors == {"Unknown", "Charles Dickens", "JANE AUSTEN"}

\* generate_book_entry always passes ["Classic"]; the functions accept any list.
TagLists == {<<"Classic">>, <<"Children">>, <<"Kids", "Picture Book">>, <<"YA">>}

\* Genre arguments of guess_age_rating beyond the values guess_genre returns.
GenreArgs == {"Gothic", "HORROR", "Poetry"}

\* Every value guess_genre can return.
GenreValues == {"Mystery", "Fantasy", "Romance", "Horror", "Science Fiction",
                "Children's Literature", "Classic Literature", "Fiction"}
AgeValues == {"Children", "Young Adult", "Adult"}

ClInit ==
    /\ title \in Titles
    /\ author \in Authors
    /\ tags \in TagLists
    /\ genre = None
    /\ age = None
    /\ cl_pc = "input"

ClIdle ==
    /\ title = None /\ author = None /\ tags = <<>>
    /\ genre = None /\ age = None /\ cl_pc = "idle"

\* genre = guess_genre(title, author, tags)              (generate_catalog.py:155)
GuessGenre ==
    /\ cl_pc = "input"
    /\ genre' = guess_genre(title, author, tags)
    /\ cl_pc' = "genre"
    /\ UNCHANGED <<title, author, tags, age>>

\* age = guess_age_rating(title, genre, tags)            (generate_catalog.py:156)
GuessAge ==
    /\ cl_pc = "genre"
    /\ age' = guess_age_rating(title, genre, tags)
    /\ cl_pc' = "age"
    /\ UNCHANGED <<title, author, tags, genre>>

\* guess_age_rating called with a genre that is not guess_genre's result.
GuessAgeOf ==
    /\ cl_pc = "input"
    /\ \E g \in GenreArgs :
          /\ genre' = g
          /\ age' = guess_age_rating(title, g, tags)
    /\ cl_pc' = "age"
    /\ UNCHANGED <<title, author, tags>>

(***************************************************************************)
(* The e-book files both tools read.                                       *)
(***************************************************************************)
\* Path.stem: the name without its last suffix.
Stem(name) ==
    LET dots == {i \in 2..Len(name) : CharAt(name, i) = "."}
    IN IF dots = {} THEN name
       ELSE SubSeq(name, 1, (CHOOSE i \in dots : \A j \in dots : j <= i) - 1)

\* book_id = epub_file.stem.lower()
BookId(name) == Lower(Stem(name))

\* epubs_dir.glob("*.epub")
Glob(listing) == {f \in listing : EndsWith(f, ".epub")}

\* The names a directory listing is drawn from: two names that differ only in
\* letter case, a name with an underscore and a hyphen, and a file that is no
\* e-book.
FilePool == {"Beta.epub", "beta.epub", "my_little-book.epub", "notes.txt"}

BookIds == {BookId(f) : f \in Glob(FilePool)}

\* Manifest items of an e-book: get_type(), get_id(), get_name(), get_content().
ItemPool == {
    [type |-> "ITEM_COVER",    id |-> "cov",  name |-> "images/front.jpg", content |-> "jpeg1"],
    [type |-> "ITEM_COVER",    id |-> "cov0", name |-> "cover.jpg",        content |-> ""],
    [type |-> "ITEM_IMAGE",    id |-> "img1", name |-> "images/Cover.png", content |-> "png2"],
    [type |-> "ITEM_IMAGE",    id |-> "img2", name |-> "images/pic.png",   content |-> "png3"],
    [type |-> "ITEM_DOCUMENT", id |-> "ch1",  name |-> "ch1.xhtml",        content |-> "xhtml"] }

ItemLists == UNION {[1..n -> ItemPool] : n \in 0..MaxItems}

\* The content attribute of the OPF cover meta element (None: no such element).
CoverMetas == {None, "img2", "ch1"}

\* What epub.read_epub gives for a file it can parse.
Manifests == [items : ItemLists, cover_meta : CoverMetas]

\* A file read_epub cannot parse (it raises): nothing of it is read.
CorruptFile == [items |-> <<>>, cover_meta |-> None]

\* DC metadata values (None: the element is absent).
MetaTitles   == {None, "", "Little Dragon"}
MetaCreators == {None, "Jane Austen"}

\* Image data PIL can open.
Decodable(data) == data \in {"jpeg1", "png2", "png3"}

(***************************************************************************)
(* extract_covers.py                                                       *)
(***************************************************************************)
\* The index at which `for item in book.get_items(): if ...: break` stops,
\* given the indices of the items that pass the test; 0 when none does.
FirstWhere(hits) ==
    IF hits = {} THEN 0 ELSE CHOOSE i \in hits : \A j \in hits : i <= j

cover_names == <<"cover.jpg", "cover.jpeg", "cover.png", "cover.gif",
                 "Cover.jpg", "Cover.png", "COVER.JPG", "COVER.PNG">>

IsCoverItem(item) == item.type = "ITEM_COVER"
IsImageItem(item) == item.type = "ITEM_IMAGE"
IsNamedCover(item) ==
    /\ item.type = "ITEM_IMAGE"
    /\ \/ AnyIn(cover_names, item.name)
       \/ Contains(Lower(item.name), "cover")

\* extract_cover_from_epub, on a file read_epub parses (ok) or not.
extract_cover_from_epub(ok, book) ==
    IF ~ok THEN None
    ELSE
    LET items == book.items
        Hits(P(_)) == {i \in 1..Len(items) : P(items[i])}
        m1 == FirstWhere(Hits(IsCoverItem))
        cover1 == IF m1 > 0 THEN items[m1].content ELSE None
        HasCoverId(item) == item.id = book.cover_meta
        m2 == IF book.cover_meta # None THEN FirstWhere(Hits(HasCoverId)) ELSE 0
        cover2 == IF m2 > 0 THEN items[m2].content ELSE cover1
        m3 == FirstWhere(Hits(IsNamedCover))
        cover3 == IF m3 > 0 THEN items[m3].content ELSE cover2
        m4 == FirstWhere(Hits(IsImageItem))
        cover4 == IF m4 > 0 THEN items[m4].content ELSE cover3
    IN IF Truthy(cover1) THEN cover1
       ELSE IF Truthy(cover2) THEN cover2
       ELSE IF Truthy(cover3) THEN cover3
       ELSE cover4

\* Content of a file of the output directory.
File(kind, data, by) == [kind |-> kind, data |-> data, by |-> by]
Absent == File("absent", "", "")
\* A file that was in the output directory before the tool first ran.
OldFile == File("old", "", "")

\* resize_and_optimize_cover: the re-encoded PNG, or the bytes it was given
\* when the image cannot be processed.
resize_and_optimize_cover(image_data) ==
    IF Decodable(image_data) THEN File("png", image_data, "")
    ELSE File("raw", image_data, "")

\* create_placeholder_cover: the drawn placeholder, or the flat rectangle when
\* drawing raises.
create_placeholder_cover(book_id, t, a, drawing_fails) ==
    IF drawing_fails THEN File("flat", "", "")
    ELSE File("placeholder", t, a)

\* The loop without its skip of existing output files.
ExistsNever(dir, book_id) == FALSE

\* output_file.exists()
Exists(dir, book_id) == dir[book_id] # Absent

\* main up to the loop of extract_all_covers: the import guard, the check of
\* the input directory, the glob and its empty case.
CoverStart ==
    /\ cov_pc = "start"
    /\ cov_log' = <<>>
    /\ IF ~EBOOKLIB_AVAILABLE
       THEN /\ cov_exit' = 1 /\ cov_pc' = "done"
            /\ UNCHANGED <<epub_files, cov_i>>
       ELSE IF ~epubs_dir_exists
       THEN /\ cov_exit' = 1 /\ cov_pc' = "done"
            /\ UNCHANGED <<epub_files, cov_i>>
       ELSE IF Glob(dir_listing) = {}
       THEN /\ cov_exit' = 0 /\ cov_pc' = "done"
            /\ UNCHANGED <<epub_files, cov_i>>
       ELSE /\ epub_files' = SortedStrings(Glob(dir_listing))
            /\ cov_i' = 1
            /\ cov_pc' = "loop"
            /\ UNCHANGED cov_exit
    /\ UNCHANGED <<output_dir, preexisting, create_placeholders, runs>>

\* The loop body with the placeholder branch's try/except removed: a file
\* that cannot be parsed ends the run with a traceback.
ProcessBookUncaught ==
    /\ cov_pc = "loop"
    /\ cov_i <= Len(epub_files)
    /\ LET epub_file == epub_files[cov_i]
           book_id == BookId(epub_file)
           Continue == cov_i' = cov_i + 1 /\ UNCHANGED <<cov_pc, cov_exit>>
           Abort == cov_pc' = "done" /\ cov_exit' = 1 /\ UNCHANGED cov_i
       IN IF Exists(output_dir, book_id)
          THEN /\ cov_log' = Append(cov_log, <<epub_file, "skip">>)
               /\ UNCHANGED output_dir
               /\ Continue
          ELSE \E ok \in BOOLEAN :
               \E book \in (IF ok THEN Manifests ELSE {CorruptFile}) :
               LET cover_data == extract_cover_from_epub(ok, book)
               IN IF Truthy(cover_data)
                  THEN /\ output_dir' = [output_dir EXCEPT ![book_id] =
                                            resize_and_optimize_cover(cover_data)]
                       /\ cov_log' = Append(cov_log, <<epub_file, "extracted">>)
                       /\ Continue
                  ELSE IF create_placeholders
                  THEN IF ~ok
                       THEN /\ cov_log' = Append(cov_log, <<epub_file, "failed">>)
                            /\ UNCHANGED output_dir
                            /\ Abort
                       ELSE \E title_meta \in MetaTitles, author_meta \in MetaCreators,
                               drawing_fails \in BOOLEAN :
                            LET t == IF title_meta # None THEN title_meta
                                     ELSE TitleCase(Replace(Stem(epub_file), "-", " "))
                                a == IF author_meta # None THEN author_meta ELSE "Unknown"
                            IN /\ output_dir' = [output_dir EXCEPT ![book_id] =
                                      create_placeholder_cover(book_id, t, a, drawing_fails)]
                               /\ cov_log' = Append(cov_log, <<epub_file, "placeholder">>)
                               /\ Continue
                  ELSE /\ cov_log' = Append(cov_log, <<epub_file, "no cover">>)
                       /\ UNCHANGED output_dir
                       /\ Continue
    /\ UNCHANGED <<preexisting, create_placeholders, epub_files, runs>>

\* One iteration of `for epub_file in sorted(epub_files)`.
ProcessBook ==
    /\ cov_pc = "loop"
    /\ cov_i <= Len(epub_files)
    /\ LET epub_file == epub_files[cov_i]
           book_id == BookId(epub_file)
       IN IF Exists(output_dir, book_id)
          THEN /\ cov_log' = Append(cov_log, <<epub_file, "skip">>)
               /\ UNCHANGED output_dir
          ELSE \E ok \in BOOLEAN :
               \E book \in (IF ok THEN Manifests ELSE {CorruptFile}) :
               LET cover_data == extract_cover_from_epub(ok, book)
               IN IF Truthy(cover_data)
                  THEN /\ output_dir' = [output_dir EXCEPT ![book_id] =
                                            resize_and_optimize_cover(cover_data)]
                       /\ cov_log' = Append(cov_log, <<epub_file, "extracted">>)
                  ELSE IF create_placeholders
                  THEN IF ~ok
                       THEN /\ cov_log' = Append(cov_log, <<epub_file, "failed">>)
                            /\ UNCHANGED output_dir
                       ELSE \E title_meta \in MetaTitles, author_meta \in MetaCreators,
                               drawing_fails \in BOOLEAN :
                            LET t == IF title_meta # None THEN title_meta
                                     ELSE TitleCase(Replace(Stem(epub_file), "-", " "))
                                a == IF author_meta # None THEN author_meta ELSE "Unknown"
                            IN /\ output_dir' = [output_dir EXCEPT ![book_id] =
                                      create_placeholder_cover(book_id, t, a, drawing_fails)]
                               /\ cov_log' = Append(cov_log, <<epub_file, "placeholder">>)
                  ELSE /\ cov_log' = Append(cov_log, <<epub_file, "no cover">>)
                       /\ UNCHANGED output_dir
    /\ cov_i' = cov_i + 1
    /\ UNCHANGED <<preexisting, create_placeholders, epub_files, cov_pc, cov_exit, runs>>

\* The end of the loop: the summary is printed and main returns 0.
CoverReturn ==
    /\ cov_pc = "loop"
    /\ cov_i > Len(epub_files)
    /\ cov_exit' = 0
    /\ cov_pc' = "done"
    /\ UNCHANGED <<output_dir, preexisting, create_placeholders, epub_files, cov_i, cov_log, runs>>

\* The developer runs the tool again, with or without --no-placeholders.
CoverRunAgain ==
    /\ cov_pc = "done"
    /\ runs < MaxRuns
    /\ runs' = runs + 1
    /\ create_placeholders' \in BOOLEAN
    /\ cov_pc' = "start"
    /\ cov_exit' = -1
    /\ UNCHANGED <<output_dir, preexisting, epub_files, cov_i, cov_log>>

\* One e-book file handed to extract_cover_from_epub: read_epub parses it
\* (ex_ok) and gives ex_book, or raises.
ExInit ==
    /\ ex_ok \in BOOLEAN
    /\ ex_book \in (IF ex_ok THEN Manifests ELSE {CorruptFile})
    /\ ex_cover = None
    /\ ex_pc = "call"

\* The call returns.
ExtractCover ==
    /\ ex_pc = "call"
    /\ ex_cover' = extract_cover_from_epub(ex_ok, ex_book)
    /\ ex_pc' = "done"
    /\ UNCHANGED <<ex_ok, ex_book>>

EnvInit ==
    /\ EBOOKLIB_AVAILABLE \in BOOLEAN
    /\ epubs_dir_exists \in BOOLEAN
    /\ dir_listing \in SUBSET FilePool
    /\ ~epubs_dir_exists => dir_listing = {}

CovInit ==
    /\ preexisting \in SUBSET BookIds
    /\ output_dir = [b \in BookIds |-> IF b \in preexisting THEN OldFile ELSE Absent]
    /\ create_placeholders \in BOOLEAN
    /\ epub_files = <<>>
    /\ cov_i = 0
    /\ cov_pc = "start"
    /\ cov_exit = -1
    /\ cov_log = <<>>
    /\ runs = 1

(***************************************************************************)
(* generate_catalog.py                                                     *)
(***************************************************************************)
MetaDescriptions == {None, "A tale."}

\* The title both fallbacks of extract_epub_metadata derive from the file name.
FilenameTitle(epub_path) ==
    TitleCase(Replace(Replace(Stem(epub_path), "-", " "), "_", " "))

\* extract_epub_metadata: the metadata dict (language is extracted too, and
\* read by nothing). ok = FALSE stands for a file read_epub cannot parse.
extract_epub_metadata(epub_path, ebooklib, ok, title_meta, creator_meta, description_meta) ==
    IF ~ebooklib
    THEN [title |-> FilenameTitle(epub_path), author |-> None, description |-> None]
    ELSE IF ~ok
    THEN [title |-> FilenameTitle(epub_path), author |-> None, description |-> None]
    ELSE [title |-> title_meta, author |-> creator_meta, description |-> description_meta]

\* covers_dir when the directory does not exist.
NoCoversDir == [exists |-> FALSE, pngs |-> {}]

\* --firebase-path (its default)
firebase_path == "epubs"

\* The fallback title of generate_book_entry.
EntryTitle(epub_path) == TitleCase(Replace(Stem(epub_path), "-", " "))

\* generate_book_entry for a file whose metadata is `metadata`; covers tells
\* whether covers_dir exists and which book ids have a PNG in it.
\* (fileSizeBytes, the size os.path.getsize reports, is left out.)
generate_book_entry(epub_path, metadata, covers) ==
    LET book_id == BookId(epub_path)
        tg == <<"Classic">>
        t == IF Truthy(metadata.title) THEN metadata.title ELSE EntryTitle(epub_path)
        a == IF Truthy(metadata.author) THEN metadata.author ELSE "Unknown"
        g == guess_genre(t, a, tg)
        ag == guess_age_rating(t, g, tg)
    IN [id |-> book_id,
        title |-> t,
        author |-> a,
        age |-> ag,
        genre |-> g,
        tags |-> tg,
        description |-> IF Truthy(metadata.description) THEN metadata.description
                        ELSE "A " \o Lower(g) \o " book by " \o a \o ".",
        storageUrl |-> firebase_path \o "/" \o epub_path,
        coverImageUrl |-> IF covers.exists /\ book_id \in covers.pngs
                          THEN "BookCovers/" \o book_id \o ".png" ELSE None,
        isFeatured |-> FALSE]

\* The keys of a dict filled book by book, in insertion order.
RECURSIVE KeysInOrder(_, _)
KeysInOrder(bs, field) ==
    IF bs = <<>> THEN <<>>
    ELSE LET before == KeysInOrder(SubSeq(bs, 1, Len(bs) - 1), field)
             k == bs[Len(bs)][field]
         IN IF \E j \in 1..Len(before) : before[j] = k THEN before
            ELSE Append(before, k)

\* The dict's value for a key: the ids of the books with that value, in order.
RECURSIVE IdsWith(_, _, _)
IdsWith(bs, field, value) ==
    IF bs = <<>> THEN <<>>
    ELSE IF bs[1][field] = value
         THEN <<bs[1].id>> \o IdsWith(Tail(bs), field, value)
         ELSE IdsWith(Tail(bs), field, value)

\* The ids of the books with repeated ids dropped.
AllBookIdsDistinct(bs) ==
    KeysInOrder(bs, "id")

\* [b["id"] for b in books]
AllBookIds(bs) == [i \in 1..Len(bs) |-> bs[i].id]

age_order == <<"Children", "Young Adult", "Adult">>

\* A genre collection for every genre that has a book.
HasEnoughBooksOne(book_ids) == Len(book_ids) >= 1

\* len(book_ids) >= 2
HasEnoughBooks(book_ids) == Len(book_ids) >= 2

\* genres.items() without sorted(): insertion order.
GenresUnsorted(bs) == KeysInOrder(bs, "genre")

\* The keys of sorted(genres.items()).
GenresSorted(bs) ==
    SortedStrings({KeysInOrder(bs, "genre")[j] : j \in 1..Len(KeysInOrder(bs, "genre"))})

Collection(id, name, description, bookIds) ==
    [id |-> id, name |-> name, description |-> description, sortOrder |-> 0,
     coverImageUrl |-> None, bookIds |-> bookIds]

create_collections(bs) ==
    LET all == <<Collection("all", "All Books", "Complete library collection",
                            AllBookIds(bs))>>
        AgePresent(a) == IdsWith(bs, "age", a) # <<>>
        ages == SelectSeq(age_order, AgePresent)
        AgeCollection(a) ==
            Collection(Replace(Lower(a), " ", "-"), a \o " Books",
                       "Books suitable for " \o Lower(a) \o " readers",
                       IdsWith(bs, "age", a))
        GenreKept(g) == HasEnoughBooks(IdsWith(bs, "genre", g))
        genres == SelectSeq(GenresSorted(bs), GenreKept)
        GenreCollection(g) ==
            Collection(Replace(Replace(Lower(g), " ", "-"), "'", ""), g,
                       g \o " books from our collection",
                       IdsWith(bs, "genre", g))
        appended == all \o [j \in 1..Len(ages) |-> AgeCollection(ages[j])]
                        \o [j \in 1..Len(genres) |-> GenreCollection(genres[j])]
    IN \* sort_order counts the collections appended so far.
       [j \in 1..Len(appended) |-> [appended[j] EXCEPT !.sortOrder = j - 1]]

\* main up to the loop of generate_catalog: the check of the input directory,
\* the glob and its empty case (generate_catalog returns None, main returns 1).
CatalogStart ==
    /\ cat_pc = "start"
    /\ IF ~epubs_dir_exists
       THEN /\ cat_exit' = 1 /\ cat_pc' = "done"
            /\ UNCHANGED <<cat_files, cat_i>>
       ELSE IF Glob(dir_listing) = {}
       THEN /\ cat_exit' = 1 /\ cat_pc' = "done"
            /\ UNCHANGED <<cat_files, cat_i>>
       ELSE /\ cat_files' = SortedStrings(Glob(dir_listing))
            /\ cat_i' = 1
            /\ cat_pc' = "loop"
            /\ UNCHANGED cat_exit
    /\ UNCHANGED <<covers_dir, cat_read, books, collections>>

\* One iteration of `for epub_file in sorted(epub_files)`; cat_read records
\* what the file held.
AppendBookEntry ==
    /\ cat_pc = "loop"
    /\ cat_i <= Len(cat_files)
    /\ \E ok \in BOOLEAN :
       \E title_meta \in (IF ok THEN MetaTitles ELSE {None}),
          creator_meta \in (IF ok THEN MetaCreators ELSE {None}),
          description_meta \in (IF ok THEN MetaDescriptions ELSE {None}) :
          LET epub_file == cat_files[cat_i]
              metadata == extract_epub_metadata(epub_file, EBOOKLIB_AVAILABLE, ok,
                              title_meta, creator_meta, description_meta)
          IN /\ books' = Append(books, generate_book_entry(epub_file, metadata, covers_dir))
             /\ cat_read' = Append(cat_read,
                                [ok |-> ok, title |-> title_meta, creator |-> creator_meta])
    /\ cat_i' = cat_i + 1
    /\ UNCHANGED <<covers_dir, cat_files, cat_pc, cat_exit, collections>>

\* After the loop: the collections are built, the catalog is written and main
\* returns 0.
CatalogFinish ==
    /\ cat_pc = "loop"
    /\ cat_i > Len(cat_files)
    /\ collections' = create_collections(books)
    /\ cat_exit' = 0
    /\ cat_pc' = "done"
    /\ UNCHANGED <<covers_dir, cat_files, cat_i, cat_read, books>>

CatInit ==
    /\ covers_dir \in {NoCoversDir} \cup {[exists |-> TRUE, pngs |-> S] : S \in SUBSET BookIds}
    /\ cat_files = <<>>
    /\ cat_i = 0
    /\ cat_pc = "start"
    /\ cat_exit = -1
    /\ cat_read = <<>>
    /\ books = <<>>
    /\ collections = <<>>

(***************************************************************************)
(* create_collections on a list of books (of which it reads id, genre and  *)
(* age).                                                                   *)
(***************************************************************************)
Digits == "0123456789"
BookName(i) == "book" \o CharAt(Digits, i + 1)

\* Genres of the books drawn: values guess_genre returns, two of them with a
\* common prefix.
CcGenres == {"Fiction", "Classic Literature", "Children's Literature"}

CcBook(i, g, a) == [id |-> BookName(i), genre |-> g, age |-> a]

\* A list of n books with ids book1..bookn, of the genres and ages given.
BookList(n, gs, as) == [i \in 1..n |-> CcBook(i, gs[i], as[i])]

CcInit ==
    /\ \E n \in 0..MaxBooks :
       \E gs \in [1..n -> CcGenres], as \in [1..n -> AgeValues] :
          cc_books = BookList(n, gs, as)
    /\ cc_result = <<>>
    /\ cc_pc = "input"

\* collections = create_collections(books)
CreateCollections ==
    /\ cc_pc = "input"
    /\ cc_result' = create_collections(cc_books)
    /\ cc_pc' = "done"
    /\ UNCHANGED cc_books

EnvIdle ==
    /\ EBOOKLIB_AVAILABLE = TRUE /\ epubs_dir_exists = FALSE /\ dir_listing = {}

CovIdle ==
    /\ output_dir = <<>> /\ preexisting = {} /\ create_placeholders = TRUE
    /\ epub_files = <<>> /\ cov_i = 0 /\ cov_pc = "idle" /\ cov_exit = -1
    /\ cov_log = <<>> /\ runs = 0

CatIdle ==
    /\ covers_dir = NoCoversDir /\ cat_files = <<>> /\ cat_i = 0 /\ cat_pc = "idle"
    /\ cat_exit = -1 /\ cat_read = <<>> /\ books = <<>> /\ collections = <<>>

CcIdle ==
    /\ cc_books = <<>> /\ cc_result = <<>> /\ cc_pc = "idle"

ExIdle ==
    /\ ex_ok = FALSE /\ ex_book = CorruptFile
    /\ ex_cover = None /\ ex_pc = "idle"


InitClassify == ClInit /\ EnvIdle /\ CovIdle /\ CatIdle /\ CcIdle /\ ExIdle

NextClassify ==
    \/ GuessGenre /\ UNCHANGED <<envVars, covVars, catVars, ccVars, exVars>>
    \/ GuessAge /\ UNCHANGED <<envVars, covVars, catVars, ccVars, exVars>>
    \/ GuessAgeOf /\ UNCHANGED <<envVars, covVars, catVars, ccVars, exVars>>

SpecClassify == InitClassify /\ [][NextClassify]_vars


(***************************************************************************)
(* Claims about the classification.                                        *)
(***************************************************************************)
HasDragon == Contains(Lower(title), "dragon")

\* C6 (as stated): for every book whose title contains "Dragon" in any letter
\* case, guess_genre returns "Fantasy", whatever the author and whatever else
\* the title contains.
C6_DragonAlwaysFantasy ==
    (cl_pc = "genre" /\ HasDragon) => genre = "Fantasy"

\* C6 (amended): for every book whose title contains "Dragon" in any letter
\* case and none of mystery/detective/murder/crime, guess_genre returns
\* "Fantasy", whatever the author and whatever else the title contains.
C6_DragonFantasyUnlessMystery ==
    (cl_pc = "genre" /\ HasDragon /\ ~AnyIn(MysteryWords, Lower(title)))
        => genre = "Fantasy"

\* A dragon title that also matches the Romance rule, by a classic author.
C6_Witness ==
    /\ cl_pc = "genre" /\ HasDragon
    /\ ~AnyIn(MysteryWords, Lower(title))
    /\ AnyIn(RomanceWords, Lower(title))
    /\ author = "Charles Dickens"
    /\ genre = "Fantasy"

\* The ordered rule list as C7 words it: rule 6 looks for "children" or "kid"
\* in the tags or in the title.
C7_RuleList(t, a, tg) ==
    LET tl == Lower(t)
        al == Lower(a)
        gl == Lower(Join(tg))
    IN IF AnyIn(<<"mystery", "detective", "murder", "crime">>, tl) THEN "Mystery"
       ELSE IF AnyIn(<<"fantasy", "wizard", "magic", "dragon">>, tl) THEN "Fantasy"
       ELSE IF AnyIn(<<"romance", "love", "heart">>, tl) THEN "Romance"
       ELSE IF AnyIn(<<"horror", "terror", "vampire", "zombie">>, tl) THEN "Horror"
       ELSE IF AnyIn(<<"science", "space", "robot", "future">>, tl) THEN "Science Fiction"
       ELSE IF AnyIn(<<"children", "kid">>, gl) \/ AnyIn(<<"children", "kid">>, tl)
            THEN "Children's Literature"
       ELSE IF AnyIn(<<"dickens", "austen">>, al) THEN "Classic Literature"
       ELSE "Fiction"

\* C7: guess_genre returns the result of the first matching rule of the ordered
\* list mystery.. -> Mystery; fantasy.. -> Fantasy; romance.. -> Romance;
\* horror.. -> Horror; science.. -> Science Fiction; "children" or "kid" in the
\* tags or in the title -> Children's Literature; classic author -> Classic
\* Literature; otherwise Fiction.
C7_FirstMatchingRule ==
    cl_pc = "genre" => genre = C7_RuleList(title, author, tags)

ChildrenIndicator ==
    \/ AnyIn(ChildrenTitleWords, Lower(title))
    \/ Contains(Lower(Join(tags)), "children")
    \/ Contains(Lower(Join(tags)), "picture book")

YoungAdultIndicator ==
    \/ AnyIn(YoungAdultTitleWords, Lower(title))
    \/ Contains(Lower(Join(tags)), "young adult")
    \/ Contains(Lower(Join(tags)), "ya")

HorrorOrGothic == Lower(genre) \in {"horror", "gothic"}

\* C8: guess_age_rating returns the result of the first matching rule of:
\* children keyword in the title or children tag -> Children; young-adult
\* keyword in the title or young-adult tag -> Young Adult; genre Horror or
\* Gothic -> Young Adult; otherwise Adult. The result is one of the three
\* ages, and a children indicator takes precedence over a Horror genre.
C8_AgeRules ==
    cl_pc = "age" =>
        /\ age \in AgeValues
        /\ (age = "Children") <=> ChildrenIndicator
        /\ (age = "Young Adult") <=>
               (~ChildrenIndicator /\ (YoungAdultIndicator \/ HorrorOrGothic))
        /\ (age = "Adult") <=>
               (~ChildrenIndicator /\ ~YoungAdultIndicator /\ ~HorrorOrGothic)

\* A Horror book with a children keyword in its title is rated Children.
C8_Witness ==
    /\ cl_pc = "age" /\ genre = "Horror"
    /\ AnyIn(ChildrenTitleWords, Lower(title))
    /\ age = "Children"


(***************************************************************************)
(* The cover extractor, run up to MaxRuns times on one directory.          *)
(***************************************************************************)
InitCovers == ClIdle /\ EnvInit /\ CovInit /\ CatIdle /\ CcIdle /\ ExIdle

NextCovers ==
    \/ CoverStart /\ UNCHANGED <<clVars, envVars, catVars, ccVars, exVars>>
    \/ ProcessBook /\ UNCHANGED <<clVars, envVars, catVars, ccVars, exVars>>
    \/ CoverReturn /\ UNCHANGED <<clVars, envVars, catVars, ccVars, exVars>>
    \/ CoverRunAgain /\ UNCHANGED <<clVars, envVars, catVars, ccVars, exVars>>

SpecCovers == InitCovers /\ [][NextCovers]_vars


(***************************************************************************)
(* Claims about the cover extractor.                                       *)
(***************************************************************************)
\* C1: with placeholders enabled, after extract_all_covers has finished on an
\* input directory whose output directory was empty, the output directory
\* holds exactly one file <book-id>.png for every e-book file of the input
\* directory, and never zero files for any of them.
C1_OneFilePerBook ==
    (/\ cov_pc = "done" /\ cov_exit = 0 /\ runs = 1
     /\ create_placeholders /\ preexisting = {})
        => /\ \A f \in Glob(dir_listing) : output_dir[BookId(f)] # Absent
           /\ \A b \in BookIds :
                 output_dir[b] # Absent => \E f \in Glob(dir_listing) : BookId(f) = b

\* C2: the exit code is 1 when the input directory does not exist or holds no
\* *.epub file, and 0 in every other case (here: of the cover extractor, with
\* ebooklib installed).
C2_ExitCode ==
    (cov_pc = "done" /\ EBOOKLIB_AVAILABLE)
        => cov_exit = (IF ~epubs_dir_exists \/ Glob(dir_listing) = {} THEN 1 ELSE 0)

\* C3: no run of the cover extractor changes the content of an output file
\* that exists, and an iteration that finds its book's output file is a skip:
\* nothing is extracted, resized or written.
C3_ExistingFileKept ==
    [][ /\ \A b \in BookIds : output_dir[b] # Absent => output_dir'[b] = output_dir[b]
        /\ DOMAIN output_dir' = DOMAIN output_dir
        /\ (/\ cov_pc = "loop" /\ cov_i <= Len(epub_files) /\ cov_i' = cov_i + 1
            /\ output_dir[BookId(epub_files[cov_i])] # Absent)
              => /\ output_dir' = output_dir
                 /\ cov_log' = Append(cov_log, <<epub_files[cov_i], "skip">>) ]_vars

\* A second run has skipped a book whose cover an earlier run extracted.
C3_Witness ==
    /\ runs = 2
    /\ \E k \in 1..Len(cov_log) :
          /\ cov_log[k][2] = "skip"
          /\ output_dir[BookId(cov_log[k][1])].kind = "png"


(***************************************************************************)
(* The catalog generator, and create_collections alone.                    *)
(***************************************************************************)
InitCatalog == ClIdle /\ EnvInit /\ CovIdle /\ CatInit /\ CcIdle /\ ExIdle

NextCatalog ==
    \/ CatalogStart /\ UNCHANGED <<clVars, envVars, covVars, ccVars, exVars>>
    \/ AppendBookEntry /\ UNCHANGED <<clVars, envVars, covVars, ccVars, exVars>>
    \/ CatalogFinish /\ UNCHANGED <<clVars, envVars, covVars, ccVars, exVars>>

SpecCatalog == InitCatalog /\ [][NextCatalog]_vars

InitCollections == ClIdle /\ EnvIdle /\ CovIdle /\ CatIdle /\ CcInit /\ ExIdle

NextCollections ==
    CreateCollections /\ UNCHANGED <<clVars, envVars, covVars, catVars, exVars>>

SpecCollections == InitCollections /\ [][NextCollections]_vars


(***************************************************************************)
(* Claims about the catalog generator.                                     *)
(***************************************************************************)
\* C4: in every catalog generate_catalog produces, the "All Books"
\* collection's bookIds list has the length of the books list and its i-th
\* element is the id of the i-th book.
C4_AllBooksMirrorsBooks ==
    (cat_pc = "done" /\ cat_exit = 0) =>
        /\ \E j \in 1..Len(collections) : collections[j].name = "All Books"
        /\ \A j \in 1..Len(collections) :
              collections[j].name = "All Books" =>
                 /\ Len(collections[j].bookIds) = Len(books)
                 /\ \A i \in 1..Len(books) : collections[j].bookIds[i] = books[i].id

\* A catalog of three books, two of them with the same id.
C4_Witness ==
    /\ cat_pc = "done" /\ cat_exit = 0
    /\ Len(books) = 3
    /\ books[1].id = books[2].id

\* C10: every book record has a title and an author; when the e-book's
\* metadata has no title, or parsing fails, the title is the file's stem
\* with hyphens and underscores replaced by spaces, title-cased; when it has
\* no author, the author is "Unknown".
C10_TitleAuthorNeverMissing ==
    \A i \in 1..Len(books) :
        /\ Truthy(books[i].title)
        /\ Truthy(books[i].author)
        /\ (~cat_read[i].ok \/ cat_read[i].title = None) =>
              books[i].title =
                 TitleCase(Replace(Replace(Stem(cat_files[i]), "-", " "), "_", " "))
        /\ (~cat_read[i].ok \/ cat_read[i].creator = None) =>
              books[i].author = "Unknown"

(***************************************************************************)
(* Claims about create_collections.                                        *)
(***************************************************************************)
BooksOfGenre(g) == {i \in 1..Len(cc_books) : cc_books[i].genre = g}
BooksOfAge(a) == {i \in 1..Len(cc_books) : cc_books[i].age = a}
Named(n) == \E j \in 1..Len(cc_result) : cc_result[j].name = n

\* C5: a collection named g is in the result if and only if at least two
\* books have genre g; a genre of exactly one book never gets a collection.
C5_GenreCollectionIffTwoBooks ==
    cc_pc = "done" =>
        \A g \in GenreValues : Named(g) <=> Cardinality(BooksOfGenre(g)) >= 2

\* One genre has a single book and no collection, another has two and one.
C5_Witness ==
    /\ cc_pc = "done"
    /\ \E g \in GenreValues : Cardinality(BooksOfGenre(g)) = 1 /\ ~Named(g)
    /\ \E g \in GenreValues : Cardinality(BooksOfGenre(g)) = 2 /\ Named(g)

\* Where the claim puts a collection name: "All Books", then the ages in the
\* order Children, Young Adult, Adult, then the genres.
C9_Group(n) ==
    IF n = "All Books" THEN 0
    ELSE IF n = "Children Books" THEN 1
    ELSE IF n = "Young Adult Books" THEN 2
    ELSE IF n = "Adult Books" THEN 3
    ELSE 4

\* C9: the result is "All Books" first with sort order 0, then the age
\* collections in the order Children, Young Adult, Adult, each present only
\* if a book has that age, then the genre collections in alphabetical order,
\* each present only if it has at least 2 books; no other collection appears
\* and the sort orders increase along the list.
C9_ConstructionOrder ==
    cc_pc = "done" =>
        /\ Len(cc_result) >= 1
        /\ cc_result[1].name = "All Books"
        /\ cc_result[1].sortOrder = 0
        /\ \A j \in 1..Len(cc_result) :
              \/ j = 1
              \/ \E a \in AgeValues :
                    /\ cc_result[j].name = a \o " Books"
                    /\ BooksOfAge(a) # {}
              \/ /\ cc_result[j].name \in GenreValues
                 /\ Cardinality(BooksOfGenre(cc_result[j].name)) >= 2
        /\ \A a \in AgeValues : BooksOfAge(a) # {} => Named(a \o " Books")
        /\ \A g \in GenreValues : Cardinality(BooksOfGenre(g)) >= 2 => Named(g)
        /\ \A j, k \in 1..Len(cc_result) :
              j < k =>
                 /\ cc_result[j].sortOrder < cc_result[k].sortOrder
                 /\ C9_Group(cc_result[j].name) <= C9_Group(cc_result[k].name)
                 /\ C9_Group(cc_result[j].name) < 4 =>
                       C9_Group(cc_result[j].name) < C9_Group(cc_result[k].name)
                 /\ C9_Group(cc_result[j].name) = 4 =>
                       StrLess(cc_result[j].name, cc_result[k].name)

\* "All Books", three age collections and two genre collections, from books
\* whose genres first occur in non-alphabetical order.
C9_Witness ==
    /\ cc_pc = "done"
    /\ Len(cc_result) = 6
    /\ cc_books[1].genre = "Fiction"


(***************************************************************************)
(* Either tool, run on one directory. ToolStep is a step of the running    *)
(* tool; running the cover extractor again is the developer's choice.      *)
(***************************************************************************)
InitTools ==
    /\ ClIdle /\ EnvInit /\ CcIdle /\ ExIdle
    /\ \/ CovInit /\ CatIdle
       \/ CovIdle /\ CatInit

ToolStep ==
    \/ CoverStart /\ UNCHANGED <<clVars, envVars, catVars, ccVars, exVars>>
    \/ ProcessBook /\ UNCHANGED <<clVars, envVars, catVars, ccVars, exVars>>
    \/ CoverReturn /\ UNCHANGED <<clVars, envVars, catVars, ccVars, exVars>>
    \/ CatalogStart /\ UNCHANGED <<clVars, envVars, covVars, ccVars, exVars>>
    \/ AppendBookEntry /\ UNCHANGED <<clVars, envVars, covVars, ccVars, exVars>>
    \/ CatalogFinish /\ UNCHANGED <<clVars, envVars, covVars, ccVars, exVars>>

NextTools ==
    \/ ToolStep
    \/ CoverRunAgain /\ UNCHANGED <<clVars, envVars, catVars, ccVars, exVars>>

SpecTools == InitTools /\ [][NextTools]_vars

(***************************************************************************)
(* Claims about both tools.                                                *)
(***************************************************************************)
\* The number of loop iterations a tool has finished.
Finished(i) == IF i = 0 THEN 0 ELSE i - 1

\* The files visited so far are the first files of the sorted list, each
\* once and in order; a run that has ended has visited them all.
C11_VisitedOnceInOrder ==
    /\ cov_pc \in {"loop", "done"} =>
          /\ Len(cov_log) = Finished(cov_i)
          /\ \A k \in 1..Len(cov_log) : cov_log[k][1] = epub_files[k]
          /\ \A j, k \in 1..Len(epub_files) : j < k => StrLess(epub_files[j], epub_files[k])
    /\ cov_pc = "done" => Len(cov_log) = Len(epub_files)
    /\ cat_pc \in {"loop", "done"} =>
          /\ Len(books) = Finished(cat_i)
          /\ Len(cat_read) = Len(books)
          /\ \A k \in 1..Len(books) : books[k].storageUrl = "epubs/" \o cat_files[k]
          /\ \A j, k \in 1..Len(cat_files) : j < k => StrLess(cat_files[j], cat_files[k])
    /\ cat_pc = "done" => Len(books) = Len(cat_files)

\* The steps a run of either tool has left: one per file still to visit, one
\* to start and one to return.
CoverStepsLeft ==
    IF cov_pc = "start" THEN Cardinality(Glob(dir_listing)) + 2
    ELSE IF cov_pc = "loop" THEN Len(epub_files) - cov_i + 2
    ELSE 0

CatalogStepsLeft ==
    IF cat_pc = "start" THEN Cardinality(Glob(dir_listing)) + 2
    ELSE IF cat_pc = "loop" THEN Len(cat_files) - cat_i + 2
    ELSE 0

\* A tool that has not ended has its next step defined: inside the loop the
\* index names a file of the list (the body runs) or is one past its end (the
\* tool returns).
C11_NextStepDefined ==
    /\ cov_pc = "loop" => cov_i \in 1..(Len(epub_files) + 1)
    /\ cat_pc = "loop" => cat_i \in 1..(Len(cat_files) + 1)

\* Every step of a running tool uses up one of the steps it has left, so no
\* iteration is repeated.
C11_StepsUsedUp ==
    /\ CoverStepsLeft >= 0 /\ CatalogStepsLeft >= 0
    /\ cov_pc \in {"start", "loop"} =>
          CoverStepsLeft' = CoverStepsLeft - 1 \/ cov_pc' = "done"
    /\ cat_pc \in {"start", "loop"} =>
          CatalogStepsLeft' = CatalogStepsLeft - 1 \/ cat_pc' = "done"

\* C11: in both tools a failure while processing one e-book file is caught
\* inside that file's iteration: the run still visits every later file of the
\* sorted file list exactly once, no file is processed a second time, and the
\* run terminates (its next step is always defined and every step uses up one
\* of the finitely many steps it has left).
C11_FailureStaysLocal ==
    /\ []C11_VisitedOnceInOrder
    /\ []C11_NextStepDefined
    /\ [][C11_StepsUsedUp]_vars

\* A run of the cover extractor that went on to later files after a file it
\* could not parse, and ended.
C11_Witness ==
    /\ cov_pc = "done"
    /\ Len(cov_log) = 3
    /\ cov_log[1][2] = "failed"
    /\ cov_log[3][2] \in {"extracted", "placeholder"}

\* The same for the catalog generator.
C11_WitnessCatalog ==
    /\ cat_pc = "done" /\ cat_exit = 0
    /\ Len(books) = 3
    /\ ~cat_read[1].ok
    /\ cat_read[3].ok

(***************************************************************************)
(* extract_cover_from_epub on one e-book file.                             *)
(***************************************************************************)
InitExtract == ClIdle /\ EnvIdle /\ CovIdle /\ CatIdle /\ CcIdle /\ ExInit

NextExtract ==
    ExtractCover /\ UNCHANGED <<clVars, envVars, covVars, catVars, ccVars>>

SpecExtract == InitExtract /\ [][NextExtract]_vars

\* The item each of the four steps of the search finds in ex_book, as an
\* index into its item list (0: the step finds none).
C12_StepItems ==
    LET items == ex_book.items
        idx == 1..Len(items)
    IN << FirstWhere({i \in idx : IsCoverItem(items[i])}),
          FirstWhere({i \in idx : ex_book.cover_meta # None /\ items[i].id = ex_book.cover_meta}),
          FirstWhere({i \in idx : IsNamedCover(items[i])}),
          FirstWhere({i \in idx : IsImageItem(items[i])}) >>

\* The steps that find an item.
C12_StepsWithItem == {n \in 1..4 : C12_StepItems[n] > 0}

\* C12: extract_cover_from_epub returns the content of the item found by the
\* first of the four steps that finds one, and reports "no cover found" (a
\* result the caller's `if cover_data:` rejects) exactly when no step finds
\* an item.
C12_FirstMatchWins ==
    ex_pc = "done" =>
        /\ ~Truthy(ex_cover) <=> C12_StepsWithItem = {}
        /\ C12_StepsWithItem # {} =>
              LET first == CHOOSE n \in C12_StepsWithItem :
                               \A k \in C12_StepsWithItem : n <= k
              IN ex_cover = ex_book.items[C12_StepItems[first]].content

\* C13: in every catalog generate_catalog produces, the ids of the book
\* records are pairwise distinct, so each id of a collection's bookIds list
\* names exactly one book record.
C13_BookIdsDistinct ==
    (cat_pc = "done" /\ cat_exit = 0) =>
        /\ \A j, k \in 1..Len(books) : j # k => books[j].id # books[k].id
        /\ \A c \in 1..Len(collections) :
              \A n \in 1..Len(collections[c].bookIds) :
                  Cardinality({k \in 1..Len(books) :
                                  books[k].id = collections[c].bookIds[n]}) = 1

====
